---- MODULE Spec2Model ----
(***************************************************************************)
(* Model of the catalogIQ photo workflow: the task store (db.tasks), the   *)
(* change-stream worker loop of agent_worker.py with its two handlers      *)
(* (color_correct_agent, publish_to_wordpress), the uploader               *)
(* upload_real_photo and the seeding script test_agentic_flow.             *)
(***************************************************************************)
EXTENDS Integers, Sequences, FiniteSets, TLC

\* ------------------------------------------------------------------ bounds
MaxPhotos == 1       \* photo references appended to one task by uploads
MaxStream == 1       \* buffered change events an external writer may add to
MaxFailures == 1     \* batch-level handler failures recorded on one task

\* ------------------------------------------------------ program constants
max_retries == 5

\* The store is followed for one task document: every write of the program is
\* filtered by one _id and touches no other document.
Ids == {1}
NoId == 0

TestSku == "TEST-SKU-001"
LocalRef == "/abs/test_product.jpg"
RemoteRef == "https://example.com/photo1.jpg"
\* str(e) of a batch-level failure: one text for each handler
Errors(agent) == IF agent = "run2A" THEN {"error_2A"} ELSE {"error_2B"}
Skus == {TestSku}
SeedPhotoLists == UNION {[1 .. n -> {RemoteRef}] : n \in 0 .. MaxPhotos}

Terminal == {"WORDPRESS_PUBLISHED", "PUBLISH_FAILED"}

VARIABLES
    tasks,        \* db.tasks: a function from the stored _ids to documents
    nextId,       \* the next fresh ObjectId
    stream,       \* buffered events of the open change stream
    wpc,          \* the worker's position in the agent loop
    change,       \* the change event being processed
    task,         \* the document find_one returned, passed to the handler
    retry_count,  \* agent_worker.retry_count
    wait_time,    \* the last computed backoff
    exit_reason,  \* why the loop ended
    upc,          \* position of upload_real_photo
    task_id,      \* upload_real_photo's task_id
    seed_id,      \* test_agentic_flow's task_id (NoId when not running)
    wp_config,    \* whether the three WordPress settings are all present
    logged,       \* the last line the worker logged, with its error text
    fails         \* history: subscription failures since the last open

vars == <<tasks, nextId, stream, wpc, change, task, retry_count, wait_time,
          exit_reason, upc, task_id, seed_id, wp_config, logged, fails>>

Line(msg) == [msg |-> msg, e |-> "none"]
NoChange == [id |-> NoId, op |-> "none", by |-> "none"]
NoTask == [status |-> "none"]

\* ----------------------------------------------------------- the store
StreamOpen == wpc \in {"listen", "process", "run2A", "run2B"}

\* Emit of a store whose updates are not seen by the open stream
EmitUnwatched(s, id, op, by) == s

\* The change stream delivers an event for every insert/update made while
\* the stream is open; a stream opened later starts at the current time.
Emit(s, id, op, by) ==
    IF StreamOpen THEN Append(s, [id |-> id, op |-> op, by |-> by]) ELSE s

SetFields(doc, upd) ==
    [f \in DOMAIN doc \cup DOMAIN upd |-> IF f \in DOMAIN upd THEN upd[f] ELSE doc[f]]

Store(db, id, doc) ==
    [i \in DOMAIN db \cup {id} |-> IF i = id THEN doc ELSE db[i]]

Remove(db, id) == [i \in DOMAIN db \ {id} |-> db[i]]

\* find_one({"sku_code": sku}): the first matching document, or none
FindBySku(db, sku) ==
    LET hits == {i \in DOMAIN db : "sku_code" \in DOMAIN db[i] /\ db[i].sku_code = sku}
    IN IF hits = {} THEN NoId ELSE CHOOSE i \in hits : \A j \in hits : i <= j

Get(doc, field, default) == IF field \in DOMAIN doc THEN doc[field] ELSE default

Init ==
    /\ tasks = <<>>
    /\ nextId = 1
    /\ stream = <<>>
    /\ wpc = "connect"
    /\ change = NoChange
    /\ task = NoTask
    /\ retry_count = 0
    /\ wait_time = 0
    /\ exit_reason = "none"
    /\ upc = "idle"
    /\ task_id = NoId
    /\ seed_id = NoId
    /\ wp_config \in BOOLEAN
    /\ logged = Line("starting")
    /\ fails = 0

\* ------------------------------------------------- upload_real_photo
\* the new_task document of upload_real_photo
new_task(sku) ==
    [sku_code |-> sku, status |-> "INITIATED", workflow_step |-> 1,
     photo_urls |-> <<>>, agent_log |-> <<"task_created">>,
     retry_metadata |-> [count |-> 0, last_error |-> "None"]]

\* photo_uploaded with the audit entry written by $set in the place of $push
photo_uploaded_log_replaced(doc, path) ==
    SetFields(doc, [status |-> "PHOTOS_UPLOADED",
                    photo_urls |-> Append(Get(doc, "photo_urls", <<>>), path),
                    agent_log |-> <<"photo_uploaded">>])

\* the update of upload_real_photo: $set status, $push photo and audit entry
photo_uploaded(doc, path) ==
    SetFields(doc, [status |-> "PHOTOS_UPLOADED",
                    photo_urls |-> Append(Get(doc, "photo_urls", <<>>), path),
                    agent_log |-> Append(Get(doc, "agent_log", <<>>), "photo_uploaded")])

\* find_one by sku; an existing task is reused, otherwise one is created
UploadFind ==
    /\ upc = "idle"
    /\ Len(stream) < MaxStream
    /\ \E sku \in Skus :
        LET existing_task == FindBySku(tasks, sku) IN
        IF existing_task # NoId
        THEN /\ Len(Get(tasks[existing_task], "photo_urls", <<>>)) < MaxPhotos
             /\ task_id' = existing_task
             /\ upc' = "update"
             /\ UNCHANGED <<tasks, nextId, stream>>
        ELSE /\ nextId \in Ids
             /\ task_id' = nextId
             /\ nextId' = nextId + 1
             /\ tasks' = Store(tasks, nextId, new_task(sku))
             /\ stream' = Emit(stream, nextId, "insert", "upload")
             /\ upc' = "update"
    /\ UNCHANGED <<wpc, change, task, retry_count, wait_time, exit_reason,
                   seed_id, wp_config, logged, fails>>

UploadUpdate ==
    /\ upc = "update"
    /\ IF task_id \in DOMAIN tasks
       THEN /\ tasks' = Store(tasks, task_id, photo_uploaded(tasks[task_id], LocalRef))
            /\ stream' = Emit(stream, task_id, "update", "upload")
       ELSE UNCHANGED <<tasks, stream>>
    /\ upc' = "idle"
    /\ task_id' = NoId
    /\ UNCHANGED <<nextId, wpc, change, task, retry_count, wait_time, exit_reason,
                   seed_id, wp_config, logged, fails>>

\* ------------------------------------------------- test_agentic_flow
test_task(urls) ==
    [sku_code |-> TestSku, status |-> "INITIATED", workflow_step |-> 1,
     photo_urls |-> urls, agent_log |-> <<"task_created">>,
     retry_metadata |-> [count |-> 0, last_error |-> "None"]]

SeedInsert ==
    /\ seed_id = NoId
    /\ nextId \in Ids
    /\ Len(stream) < MaxStream
    /\ \E urls \in SeedPhotoLists :
        tasks' = Store(tasks, nextId, test_task(urls))
    /\ stream' = Emit(stream, nextId, "insert", "seed")
    /\ seed_id' = nextId
    /\ nextId' = nextId + 1
    /\ UNCHANGED <<wpc, change, task, retry_count, wait_time, exit_reason,
                   upc, task_id, wp_config, logged, fails>>

\* update_one({"_id": task_id}, {"$set": {"status": "PHOTOS_UPLOADED"}});
\* an update that changes nothing produces no change event
SeedUpdate ==
    /\ seed_id # NoId
    /\ IF seed_id \in DOMAIN tasks /\ Get(tasks[seed_id], "status", "none") # "PHOTOS_UPLOADED"
       THEN /\ tasks' = Store(tasks, seed_id,
                               SetFields(tasks[seed_id], [status |-> "PHOTOS_UPLOADED"]))
            /\ stream' = Emit(stream, seed_id, "update", "seed")
       ELSE UNCHANGED <<tasks, stream>>
    /\ seed_id' = NoId
    /\ UNCHANGED <<nextId, wpc, change, task, retry_count, wait_time, exit_reason,
                   upc, task_id, wp_config, logged, fails>>

\* db.tasks.delete_one({"_id": task_id}): delete events do not pass the pipeline
DeleteTask ==
    /\ \E id \in DOMAIN tasks :
        /\ tasks' = Remove(tasks, id)
        /\ UNCHANGED <<nextId, stream, wpc, change, task, retry_count, wait_time,
                   exit_reason, upc, task_id, seed_id, wp_config, logged, fails>>

\* ------------------------------------------------- color_correct_agent
\* analysis that reports a local photo as completed whether or not the
\* enhancement returned a corrected file
analysis_always_completed(idx, photo_url, ok) ==
    IF photo_url = LocalRef
    THEN [photo_index |-> idx, file_path |-> photo_url,
          corrected_path |-> IF ok THEN "/abs/test_product_color_corrected.jpg" ELSE "None",
          status |-> "completed"]
    ELSE IF ok
         THEN [photo_index |-> idx, photo_url |-> photo_url, model_used |-> "gpt-4o-vision"]
         ELSE [photo_index |-> idx, photo_url |-> photo_url, error |-> "error"]

\* analysis with photo_index idx in the place of idx + 1 (idx counts from 0
\* in the source and from 1 here)
analysis_zero_based(idx, photo_url, ok) ==
    IF photo_url = LocalRef
    THEN [photo_index |-> idx - 1, file_path |-> photo_url,
          corrected_path |-> IF ok THEN "/abs/test_product_color_corrected.jpg" ELSE "None",
          status |-> IF ok THEN "completed" ELSE "failed"]
    ELSE IF ok
         THEN [photo_index |-> idx - 1, photo_url |-> photo_url, model_used |-> "gpt-4o-vision"]
         ELSE [photo_index |-> idx - 1, photo_url |-> photo_url, error |-> "error"]

\* one entry of vision_results: ok says whether the enhancement (local file)
\* or the vision call (remote reference) succeeded
analysis(idx, photo_url, ok) ==
    IF photo_url = LocalRef
    THEN [photo_index |-> idx, file_path |-> photo_url,
          corrected_path |-> IF ok THEN "/abs/test_product_color_corrected.jpg" ELSE "None",
          status |-> IF ok THEN "completed" ELSE "failed"]
    ELSE IF ok
         THEN [photo_index |-> idx, photo_url |-> photo_url, model_used |-> "gpt-4o-vision"]
         ELSE [photo_index |-> idx, photo_url |-> photo_url, error |-> "error"]

vision_results(photo_urls, ok) ==
    [idx \in 1 .. Len(photo_urls) |-> analysis(idx, photo_urls[idx], ok[idx])]

\* color_corrected with the $push of the audit entry left out
color_corrected_unlogged(doc, results) ==
    SetFields(doc, [status |-> "COLOR_CORRECTED", workflow_step |-> 2,
                    color_analysis |-> results])

\* color_corrected that also clears retry_metadata
color_corrected_retry_reset(doc, results) ==
    SetFields(doc, [status |-> "COLOR_CORRECTED", workflow_step |-> 2,
                    color_analysis |-> results,
                    retry_metadata |-> [count |-> 0, last_error |-> "None"],
                    agent_log |-> Append(Get(doc, "agent_log", <<>>),
                                         "color_correction_completed")])

\* the update of the success path of color_correct_agent
color_corrected(doc, results) ==
    SetFields(doc, [status |-> "COLOR_CORRECTED", workflow_step |-> 2,
                    color_analysis |-> results,
                    agent_log |-> Append(Get(doc, "agent_log", <<>>),
                                         "color_correction_completed")])

\* retry_logged that also stores the results gathered before the failure
retry_logged_with_results(doc, e) ==
    SetFields(doc, [retry_metadata |->
        [count |-> Get(doc, "retry_metadata", [count |-> 0]).count + 1,
         last_error |-> e],
        color_analysis |-> <<>>])

\* retry_logged with the $set of last_error left out
retry_logged_count_only(doc, e) ==
    SetFields(doc, [retry_metadata |->
        [count |-> Get(doc, "retry_metadata", [count |-> 0]).count + 1,
         last_error |-> Get(doc, "retry_metadata", [last_error |-> "None"]).last_error]])

\* the update of the except path of both handlers
retry_logged(doc, e) ==
    SetFields(doc, [retry_metadata |->
        [count |-> Get(doc, "retry_metadata", [count |-> 0]).count + 1,
         last_error |-> e]])

\* ------------------------------------------------- publish_to_wordpress
\* one entry of publish_results (index and status; the reason, error and
\* media_url texts are left out); result is the outcome of the attempt for an
\* entry that carries a corrected file
publish_result(idx, entry, result) ==
    IF Get(entry, "corrected_path", "None") = "None" \/ result = "missing"
    THEN [photo_index |-> idx, status |-> "failed"]
    ELSE IF result = "success"
         THEN [photo_index |-> idx, status |-> "published", media_id |-> "id"]
         ELSE [photo_index |-> idx, status |-> "failed"]

\* publish_results without the check of the WordPress settings
publish_results_unchecked(color_analysis, configured, result) ==
    [idx \in 1 .. Len(color_analysis) |->
        publish_result(idx, color_analysis[idx], result[idx])]

publish_results(color_analysis, configured, result) ==
    IF ~configured
    THEN [idx \in 1 .. Len(color_analysis) |->
            [photo_index |-> idx, status |-> "skipped"]]
    ELSE [idx \in 1 .. Len(color_analysis) |->
            publish_result(idx, color_analysis[idx], result[idx])]

\* next_status with all() in the place of any()
next_status_all(results) ==
    IF \A i \in 1 .. Len(results) : Get(results[i], "status", "none") = "published"
    THEN "WORDPRESS_PUBLISHED" ELSE "PUBLISH_FAILED"

next_status(results) ==
    IF \E i \in 1 .. Len(results) : Get(results[i], "status", "none") = "published"
    THEN "WORDPRESS_PUBLISHED" ELSE "PUBLISH_FAILED"

\* wordpress_published with workflow_step left out of the $set
wordpress_published_step_kept(doc, results) ==
    SetFields(doc, [status |-> next_status(results),
                    wordpress_publish_results |-> results,
                    agent_log |-> Append(Get(doc, "agent_log", <<>>),
                                         "wordpress_publish_completed")])

wordpress_published(doc, results) ==
    SetFields(doc, [status |-> next_status(results), workflow_step |-> 3,
                    wordpress_publish_results |-> results,
                    agent_log |-> Append(Get(doc, "agent_log", <<>>),
                                         "wordpress_publish_completed")])

UploadOutcomes == {"success", "rejected", "missing"}

\* ------------------------------------------------- the agent loop
RECURSIVE Pow2(_)
Pow2(n) == IF n = 0 THEN 1 ELSE 2 * Pow2(n - 1)

\* backoff with 2 * retry_count in the place of 2 ** retry_count
backoff_linear(n) == 2 * n

\* wait_time = 2 ** retry_count
backoff(n) == Pow2(n)

\* may_retry with <= in the place of <
may_retry_inclusive(n) == n <= max_retries

\* while retry_count < max_retries / if retry_count < max_retries
may_retry(n) == n < max_retries

\* handler_for testing only that photos were uploaded at some time
handler_for_not_initiated(current_status) ==
    IF current_status = "COLOR_CORRECTED" THEN "run2B"
    ELSE IF current_status # "INITIATED" THEN "run2A"
    ELSE "listen"

\* handler_for that publishes again after a failed publish
handler_for_republish(current_status) ==
    IF current_status = "PHOTOS_UPLOADED" THEN "run2A"
    ELSE IF current_status \in {"COLOR_CORRECTED", "PUBLISH_FAILED"} THEN "run2B"
    ELSE "listen"

\* the branch the loop takes on the status it has just re-read
handler_for(current_status) ==
    IF current_status = "PHOTOS_UPLOADED" THEN "run2A"
    ELSE IF current_status = "COLOR_CORRECTED" THEN "run2B"
    ELSE "listen"

\* ConnectionFailed with the retry_count += 1 left out
ConnectionFailedUncounted ==
    /\ UNCHANGED <<retry_count, fails, exit_reason>>
    /\ stream' = <<>>
    /\ change' = NoChange
    /\ task' = NoTask
    /\ wait_time' = backoff(retry_count + 1)
    /\ wpc' = "sleep"
    /\ logged' = Line("stream_error")

\* except Exception of the while loop: count, then back off or give up
ConnectionFailed ==
    /\ retry_count' = retry_count + 1
    /\ fails' = fails + 1
    /\ stream' = <<>>
    /\ change' = NoChange
    /\ task' = NoTask
    /\ IF may_retry(retry_count + 1)
       THEN /\ wait_time' = backoff(retry_count + 1)
            /\ wpc' = "sleep"
            /\ logged' = Line("stream_error")
            /\ UNCHANGED exit_reason
       ELSE /\ wpc' = "exited"
            /\ exit_reason' = "fatal"
            /\ logged' = Line("failed_to_connect")
            /\ UNCHANGED wait_time

\* db.tasks.watch(pipeline) succeeds: the stream starts at the current time
WatchOpened ==
    /\ wpc = "connect"
    /\ may_retry(retry_count)
    /\ wpc' = "listen"
    /\ retry_count' = 0
    /\ fails' = 0
    /\ stream' = <<>>
    /\ logged' = Line("stream_opened")
    /\ UNCHANGED <<tasks, nextId, change, task, wait_time, exit_reason, upc,
                   task_id, seed_id, wp_config>>

\* db.tasks.watch(pipeline) raises
WatchFailed ==
    /\ wpc = "connect"
    /\ may_retry(retry_count)
    /\ ConnectionFailed
    /\ UNCHANGED <<tasks, nextId, upc, task_id, seed_id, wp_config>>

\* the iteration of the open stream raises
StreamFailed ==
    /\ wpc = "listen"
    /\ ConnectionFailed
    /\ UNCHANGED <<tasks, nextId, upc, task_id, seed_id, wp_config>>

\* time.sleep(wait_time), then the next turn of the while loop; wait_time is
\* not read again before it is recomputed
Sleep ==
    /\ wpc = "sleep"
    /\ wpc' = "connect"
    /\ wait_time' = 0
    /\ logged' = Line("reconnecting")
    /\ UNCHANGED <<tasks, nextId, stream, change, task, retry_count,
                   exit_reason, upc, task_id, seed_id, wp_config, fails>>

\* NextChange that hands out the newest buffered event first
NextChangeNewestFirst ==
    /\ wpc = "listen"
    /\ stream # <<>>
    /\ stream' = SubSeq(stream, 1, Len(stream) - 1)
    /\ wpc' = "process"
    /\ change' = stream[Len(stream)]
    /\ logged' = Line("change_detected")
    /\ UNCHANGED <<tasks, nextId, task, retry_count, wait_time, exit_reason, upc,
                   task_id, seed_id, wp_config, fails>>

\* for change in stream: the next buffered event, which carries a task id
NextChange ==
    /\ wpc = "listen"
    /\ stream # <<>>
    /\ stream' = Tail(stream)
    /\ wpc' = "process"
    /\ change' = Head(stream)
    /\ logged' = Line("change_detected")
    /\ UNCHANGED <<tasks, nextId, task, retry_count, wait_time, exit_reason, upc,
                   task_id, seed_id, wp_config, fails>>

\* Dispatch that hands an event whose task is gone to color_correct_agent
DispatchMissingHandled ==
    /\ wpc = "process"
    /\ IF change.id \in DOMAIN tasks
       THEN LET current_status == Get(tasks[change.id], "status", "UNKNOWN") IN
            /\ wpc' = handler_for(current_status)
            /\ logged' = Line(handler_for(current_status))
            /\ task' = IF handler_for(current_status) = "listen"
                       THEN NoTask ELSE tasks[change.id]
            /\ change' = IF handler_for(current_status) = "listen"
                         THEN NoChange ELSE change
       ELSE /\ wpc' = "run2A"
            /\ logged' = Line("task_not_found")
            /\ task' = NoTask
            /\ change' = change
    /\ UNCHANGED <<tasks, nextId, stream, retry_count, wait_time, exit_reason, upc,
                   task_id, seed_id, wp_config, fails>>

\* find_one({"_id": task_id}) and the branch on current_status
Dispatch ==
    /\ wpc = "process"
    /\ IF change.id \in DOMAIN tasks
       THEN LET current_status == Get(tasks[change.id], "status", "UNKNOWN") IN
            /\ wpc' = handler_for(current_status)
            /\ logged' = Line(handler_for(current_status))
            /\ task' = IF handler_for(current_status) = "listen"
                       THEN NoTask ELSE tasks[change.id]
            /\ change' = IF handler_for(current_status) = "listen"
                         THEN NoChange ELSE change
       ELSE /\ wpc' = "listen"
            /\ logged' = Line("task_not_found")
            /\ task' = NoTask
            /\ change' = NoChange
    /\ UNCHANGED <<tasks, nextId, stream, retry_count, wait_time, exit_reason, upc,
                   task_id, seed_id, wp_config, fails>>

\* ProcessError handled as an error of the stream: counted, then backoff
ProcessErrorCounted ==
    /\ wpc = "process"
    /\ wpc' = "sleep"
    /\ retry_count' = retry_count + 1
    /\ fails' = fails + 1
    /\ wait_time' = backoff(retry_count + 1)
    /\ stream' = <<>>
    /\ change' = NoChange
    /\ task' = NoTask
    /\ logged' = Line("error_processing_change")
    /\ UNCHANGED <<tasks, nextId, exit_reason, upc, task_id, seed_id, wp_config>>

\* an exception while the event is processed, caught inside the for loop
ProcessError ==
    /\ wpc = "process"
    /\ wpc' = "listen"
    /\ change' = NoChange
    /\ task' = NoTask
    /\ logged' = Line("error_processing_change")
    /\ UNCHANGED <<tasks, nextId, stream, retry_count, wait_time, exit_reason, upc,
                   task_id, seed_id, wp_config, fails>>

\* color_correct_agent runs to its update_one; an update that matches no
\* document changes nothing
ColorCorrected ==
    /\ wpc = "run2A"
    /\ LET photo_urls == Get(task, "photo_urls", <<>>) IN
       \E ok \in [1 .. Len(photo_urls) -> BOOLEAN] :
          IF change.id \in DOMAIN tasks
          THEN /\ tasks' = Store(tasks, change.id,
                      color_corrected(tasks[change.id], vision_results(photo_urls, ok)))
               /\ stream' = Emit(stream, change.id, "update", "2A")
          ELSE UNCHANGED <<tasks, stream>>
    /\ wpc' = "listen"
    /\ change' = NoChange
    /\ task' = NoTask
    /\ logged' = Line("completed_2A")
    /\ UNCHANGED <<nextId, retry_count, wait_time, exit_reason, upc, task_id,
                   seed_id, wp_config, fails>>

\* publish_to_wordpress runs to its update_one
WordpressPublished ==
    /\ wpc = "run2B"
    /\ LET color_analysis == Get(task, "color_analysis", <<>>) IN
       \E result \in [1 .. Len(color_analysis) -> UploadOutcomes] :
          IF change.id \in DOMAIN tasks
          THEN /\ tasks' = Store(tasks, change.id,
                      wordpress_published(tasks[change.id],
                          publish_results(color_analysis, wp_config, result)))
               /\ stream' = Emit(stream, change.id, "update", "2B")
          ELSE UNCHANGED <<tasks, stream>>
    /\ wpc' = "listen"
    /\ change' = NoChange
    /\ task' = NoTask
    /\ logged' = Line("completed_2B")
    /\ UNCHANGED <<nextId, retry_count, wait_time, exit_reason, upc, task_id,
                   seed_id, wp_config, fails>>

\* the except path of a handler: the retry_metadata update, which may itself
\* fail (except Exception as e2) and then changes nothing
BatchFailed ==
    /\ wpc \in {"run2A", "run2B"}
    /\ \E e \in Errors(wpc), written \in BOOLEAN :
          /\ IF written /\ change.id \in DOMAIN tasks
             THEN /\ Get(tasks[change.id], "retry_metadata", [count |-> 0]).count < MaxFailures
                  /\ tasks' = Store(tasks, change.id, retry_logged(tasks[change.id], e))
                  /\ stream' = Emit(stream, change.id, "update",
                                  IF wpc = "run2A" THEN "fail2A" ELSE "fail2B")
             ELSE UNCHANGED <<tasks, stream>>
          /\ logged' = [msg |-> IF written THEN "agent_error" ELSE "failed_to_log_error",
                        e |-> e]
    /\ wpc' = "listen"
    /\ change' = NoChange
    /\ task' = NoTask
    /\ UNCHANGED <<nextId, retry_count, wait_time, exit_reason, upc, task_id,
                   seed_id, wp_config, fails>>

\* Interrupt with the interrupted handler's update half applied
InterruptMidWrite ==
    /\ wpc # "exited"
    /\ wpc' = "exited"
    /\ exit_reason' = "interrupt"
    /\ stream' = <<>>
    /\ IF wpc = "run2A" /\ change.id \in DOMAIN tasks
       THEN tasks' = Store(tasks, change.id,
                           SetFields(tasks[change.id], [status |-> "COLOR_CORRECTED"]))
       ELSE UNCHANGED tasks
    /\ UNCHANGED <<nextId, change, task, retry_count, wait_time, upc, task_id,
                   seed_id, wp_config, fails>>
    /\ logged' = Line(IF wpc = "sleep" THEN "uncaught_interrupt" ELSE "stopping")

\* KeyboardInterrupt: inside the try it is no Exception, so it passes the
\* handlers' and the loop's except Exception clauses and reaches except
\* KeyboardInterrupt: break; raised during the sleep of the except clause it
\* is caught by nothing and ends the process.  Either way the loop has ended
\* where it stood: change and task keep their last values.
Interrupt ==
    /\ wpc # "exited"
    /\ wpc' = "exited"
    /\ exit_reason' = "interrupt"
    /\ stream' = <<>>
    /\ UNCHANGED <<tasks, nextId, change, task, retry_count, wait_time, upc, task_id,
                   seed_id, wp_config, fails>>
    /\ logged' = Line(IF wpc = "sleep" THEN "uncaught_interrupt" ELSE "stopping")

\* the stream yields an event whose documentKey carries no _id: it is logged
\* and skipped (continue); such an event refers to no document, so its place
\* among the buffered events does not matter and it is taken as it arrives
MalformedChange ==
    /\ wpc = "listen"
    /\ logged' = Line("no_task_id")
    /\ UNCHANGED <<tasks, nextId, stream, wpc, change, task, retry_count, wait_time,
                   exit_reason, upc, task_id, seed_id, wp_config, fails>>

Next ==
    \/ UploadFind
    \/ UploadUpdate
    \/ SeedInsert
    \/ SeedUpdate
    \/ DeleteTask
    \/ WatchOpened
    \/ WatchFailed
    \/ StreamFailed
    \/ Sleep
    \/ NextChange
    \/ Dispatch
    \/ ProcessError
    \/ ColorCorrected
    \/ WordpressPublished
    \/ BatchFailed
    \/ Interrupt
    \/ MalformedChange

Spec == Init /\ [][Next]_vars

\* The worker is one sequential process that keeps running: a watch() call
\* returns or raises, a sleep ends, a pending event is pulled, a handler ends.
\* Connection loss, interrupts and processing errors are faults of the
\* environment and are not forced.
WorkerStep ==
    \/ WatchOpened
    \/ WatchFailed
    \/ Sleep
    \/ NextChange
    \/ Dispatch
    \/ ColorCorrected
    \/ WordpressPublished
    \/ BatchFailed

FairSpec == Spec /\ WF_vars(WorkerStep)

\* ------------------------------------------------- handler batches
\* The handlers as functions of the task they are given: the worker listens
\* on an open stream, and the store holds one task that the seeding script
\* created with r remote references and set to PHOTOS_UPLOADED (the insert
\* event was processed and skipped) and to which k local photos were then
\* uploaded; the events of these updates are still buffered.
MaxBatch == 2        \* photo references of the task a batch starts from

RECURSIVE uploaded(_, _)
uploaded(doc, k) ==
    IF k = 0 THEN doc ELSE photo_uploaded(uploaded(doc, k - 1), LocalRef)

BatchTask(r, k) ==
    uploaded(SetFields(test_task([i \in 1 .. r |-> RemoteRef]),
                       [status |-> "PHOTOS_UPLOADED"]), k)

BatchInit ==
    /\ \E r \in 0 .. MaxBatch, k \in 0 .. MaxBatch :
          /\ r + k <= MaxBatch
          /\ tasks = Store(<<>>, 1, BatchTask(r, k))
          /\ stream = <<[id |-> 1, op |-> "update", by |-> "seed"]>>
                      \o [i \in 1 .. k |-> [id |-> 1, op |-> "update", by |-> "upload"]]
    /\ nextId = 2
    /\ wpc = "listen"
    /\ change = NoChange
    /\ task = NoTask
    /\ retry_count = 0
    /\ wait_time = 0
    /\ exit_reason = "none"
    /\ upc = "idle"
    /\ task_id = NoId
    /\ seed_id = NoId
    /\ wp_config \in BOOLEAN
    /\ logged = Line("listen")
    /\ fails = 0

BatchNext ==
    \/ NextChange
    \/ Dispatch
    \/ ColorCorrected
    \/ WordpressPublished
    \/ BatchFailed

BatchSpec == BatchInit /\ [][BatchNext]_vars

\* ------------------------------------------------- the undisturbed flow
\* The worker on an open subscription with the uploaded task's events
\* buffered, when nothing else happens: no further write from outside, no
\* lost connection, no interrupt and no batch-level or processing failure.
\* The loop is one sequential process that keeps running.
FlowNext ==
    \/ NextChange
    \/ Dispatch
    \/ ColorCorrected
    \/ WordpressPublished

FlowSpec == BatchInit /\ [][FlowNext]_vars /\ WF_vars(FlowNext)

\* ------------------------------------------------------------- claims
StatusOf(db, id) == Get(db[id], "status", "UNKNOWN")

NextStage(a, b) ==
    \/ a = "INITIATED" /\ b = "PHOTOS_UPLOADED"
    \/ a = "PHOTOS_UPLOADED" /\ b = "COLOR_CORRECTED"
    \/ a = "COLOR_CORRECTED" /\ b \in Terminal

\* C1: every write moves a task's status to the same or to the next stage of
\* INITIATED -> PHOTOS_UPLOADED -> COLOR_CORRECTED -> {WORDPRESS_PUBLISHED |
\* PUBLISH_FAILED}; no write moves it back and none skips a stage.  The
\* writes of the seeding script (the steps that change seed_id) are not among
\* the writes the claim is about.
C1_StatusFollowsOrder ==
    [][seed_id' = seed_id =>
          \A id \in DOMAIN tasks \cap DOMAIN tasks' :
             \/ StatusOf(tasks', id) = StatusOf(tasks, id)
             \/ NextStage(StatusOf(tasks, id), StatusOf(tasks', id))]_vars

\* C2: a handler is never invoked on a task by the change event that the
\* worker's own failure bookkeeping for that handler and task has produced.
C2_NoSelfRetrigger ==
    /\ ~(wpc = "run2A" /\ change.by = "fail2A")
    /\ ~(wpc = "run2B" /\ change.by = "fail2B")

\* C3: when an event is processed while the stored status is past a handler's
\* triggering status, that handler is not invoked and the store is not
\* written; a handler only ever runs on a document read at its trigger status.
C3_NoRerunPastTrigger ==
    /\ [][(wpc = "process" /\ wpc' # "process" /\ change.id \in DOMAIN tasks) =>
            LET s == StatusOf(tasks, change.id) IN
            /\ s \in {"COLOR_CORRECTED"} \cup Terminal => wpc' # "run2A"
            /\ s \in Terminal => wpc' # "run2B"
            /\ s \in {"COLOR_CORRECTED"} \cup Terminal => tasks' = tasks]_vars
    /\ [](wpc = "run2A" => Get(task, "status", "UNKNOWN") = "PHOTOS_UPLOADED")
    /\ [](wpc = "run2B" => Get(task, "status", "UNKNOWN") = "COLOR_CORRECTED")

\* C3 witness: the event of publish_to_wordpress's own update was processed on
\* the terminal task and skipped.
C3_Witness ==
    /\ wpc = "listen"
    /\ logged.msg = "listen"
    /\ 1 \in DOMAIN tasks
    /\ StatusOf(tasks, 1) \in Terminal

\* a handler ends in its except path: the step out of run2A/run2B that logs
\* the agent error (and, if the bookkeeping fails too, the second error)
BatchFailureStep ==
    /\ wpc \in {"run2A", "run2B"}
    /\ wpc' = "listen"
    /\ logged'.msg \in {"agent_error", "failed_to_log_error"}
    /\ change.id \in DOMAIN tasks

Count(doc) == Get(doc, "retry_metadata", [count |-> 0]).count
LastError(doc) == Get(doc, "retry_metadata", [last_error |-> "None"]).last_error

\* C4 as stated: every batch-level failure leaves status unchanged, adds
\* exactly 1 to retry_metadata.count and sets last_error to the new error text.
C4_EveryFailureCounted ==
    [][BatchFailureStep =>
          /\ change.id \in DOMAIN tasks'
          /\ StatusOf(tasks', change.id) = StatusOf(tasks, change.id)
          /\ Count(tasks'[change.id]) = Count(tasks[change.id]) + 1
          /\ LastError(tasks'[change.id]) = logged'.e]_vars

\* C4 amended: every batch-level failure leaves status unchanged; when the
\* handler's retry_metadata update is applied it adds exactly 1 to count and
\* sets last_error to the new error text, and when that update itself raises
\* the task is left exactly as it was.
C4_FailureCountedWhenLogged ==
    [][BatchFailureStep =>
          /\ change.id \in DOMAIN tasks'
          /\ StatusOf(tasks', change.id) = StatusOf(tasks, change.id)
          /\ IF logged'.msg = "agent_error"
             THEN /\ Count(tasks'[change.id]) = Count(tasks[change.id]) + 1
                  /\ LastError(tasks'[change.id]) = logged'.e
             ELSE tasks' = tasks]_vars

\* C4 witness: a batch failure has been recorded on the task.
C4_Witness ==
    /\ logged.msg = "agent_error"
    /\ 1 \in DOMAIN tasks
    /\ Count(tasks[1]) = 1
    /\ LastError(tasks[1]) = logged.e

\* C5: a task in PHOTOS_UPLOADED is eventually handed to color_correct_agent,
\* unless the worker exits or the task is deleted first; stated for the runs
\* in which the subscription is eventually open for good, so that what is
\* asked is only that the reconnected worker picks the task up.
C5_UploadedEventuallyHandled ==
    <>[]StreamOpen =>
        \A id \in Ids :
            (id \in DOMAIN tasks /\ StatusOf(tasks, id) = "PHOTOS_UPLOADED")
                ~> \/ wpc = "run2A" /\ change.id = id
                   \/ wpc = "exited"
                   \/ id \notin DOMAIN tasks

\* C6: the wait after the k-th consecutive subscription failure is 2^k
\* (2, 4, 8, 16), and retry_count is 0 whenever a subscription is open.
C6_BackoffDoubles ==
    /\ wpc = "sleep" =>
          /\ fails \in 1 .. 4
          /\ wait_time = CASE fails = 1 -> 2 [] fails = 2 -> 4
                           [] fails = 3 -> 8 [] fails = 4 -> 16
    /\ StreamOpen => retry_count = 0 /\ fails = 0

\* C6 witness: the worker sleeps 8 after the third consecutive failure.
C6_Witness == wpc = "sleep" /\ fails = 3 /\ wait_time = 8

\* C7: the loop has ended exactly when it was interrupted or the fifth
\* consecutive subscription failure has happened; after the fifth failure it
\* is ended at once (no sleep, no connect), and retry_count stays in 0..5.
C7_ExitsOnInterruptOrFifthFailure ==
    /\ retry_count \in 0 .. 5
    /\ retry_count = fails
    /\ (wpc = "exited") = (exit_reason \in {"interrupt", "fatal"})
    /\ exit_reason \in {"none", "interrupt", "fatal"}
    /\ (exit_reason = "fatal") = (fails = 5)
    /\ fails = 5 => wpc = "exited"

\* C7 witness: the worker gave up after five consecutive failures.
C7_Witness == wpc = "exited" /\ exit_reason = "fatal" /\ fails = 5

\* C8 as stated: if subscriptions keep failing (no subscription stays open
\* for ever) and nobody interrupts, the worker eventually exits as fatal.
C8_FailingListenerExits ==
    ([]<>(~StreamOpen) /\ [](exit_reason # "interrupt")) => <>(exit_reason = "fatal")

\* C8 amended: if from some point on no subscription is opened any more (every
\* attempt to open fails) and nobody interrupts, the worker eventually exits
\* as fatal.
C8_NeverOpeningListenerExits ==
    (<>[](~StreamOpen) /\ [](exit_reason # "interrupt")) => <>(exit_reason = "fatal")

\* C8 witness: the fatal exit with the retries used up.
C8_Witness ==
    /\ exit_reason = "fatal"
    /\ retry_count = max_retries
    /\ logged.msg = "failed_to_connect"

\* the step in which the loop, having re-read the task, takes its branch
DispatchStep ==
    /\ wpc = "process"
    /\ wpc' \in {"run2A", "run2B", "listen"}
    /\ logged'.msg \in {"run2A", "run2B", "listen", "task_not_found"}

\* C9: for an event whose task exists the branch is decided by the status
\* stored at processing time alone: PHOTOS_UPLOADED starts Agent 2A only,
\* COLOR_CORRECTED starts Agent 2B only, any other status starts no handler;
\* the branch itself writes nothing to the store.
C9_DispatchByStoredStatus ==
    [][(DispatchStep /\ change.id \in DOMAIN tasks) =>
          LET s == StatusOf(tasks, change.id) IN
          /\ (wpc' = "run2A") = (s = "PHOTOS_UPLOADED")
          /\ (wpc' = "run2B") = (s = "COLOR_CORRECTED")
          /\ (wpc' = "listen") = (s \notin {"PHOTOS_UPLOADED", "COLOR_CORRECTED"})
          /\ wpc' # "listen" => task' = tasks[change.id]
          /\ tasks' = tasks
          /\ stream' = stream]_vars

\* C9 witness: an insert event, processed after the upload's update, has
\* started Agent 2A on the re-read status.
C9_Witness ==
    /\ wpc = "run2A"
    /\ change.op = "insert"
    /\ logged.msg = "run2A"

\* the step in which publish_to_wordpress commits on a task that exists
PublishCommitStep ==
    /\ wpc = "run2B"
    /\ wpc' = "listen"
    /\ logged'.msg = "completed_2B"
    /\ change.id \in DOMAIN tasks

Published(results) ==
    \E i \in 1 .. Len(results) : Get(results[i], "status", "none") = "published"

\* C10: the commit of publish_to_wordpress sets status WORDPRESS_PUBLISHED
\* exactly when some entry of wordpress_publish_results is 'published' and
\* PUBLISH_FAILED otherwise (also for an empty result), sets workflow_step 3
\* and appends exactly one audit entry, in the same single update.
C10_PublishOutcome ==
    [][PublishCommitStep =>
          /\ change.id \in DOMAIN tasks'
          /\ LET old == tasks[change.id]
                 new == tasks'[change.id]
                 results == Get(new, "wordpress_publish_results", <<"none">>)
             IN /\ Len(results) = Len(Get(task, "color_analysis", <<>>))
                /\ (new.status = "WORDPRESS_PUBLISHED") = Published(results)
                /\ (new.status = "PUBLISH_FAILED") = ~Published(results)
                /\ new.workflow_step = 3
                /\ new.agent_log = Append(old.agent_log, "wordpress_publish_completed")
                /\ \A f \in DOMAIN old \ {"status", "workflow_step", "agent_log",
                                          "wordpress_publish_results"} :
                       f \in DOMAIN new /\ new[f] = old[f]]_vars

\* C10 witness: a commit with a published entry has set WORDPRESS_PUBLISHED.
C10_Witness ==
    /\ logged.msg = "completed_2B"
    /\ 1 \in DOMAIN tasks
    /\ StatusOf(tasks, 1) = "WORDPRESS_PUBLISHED"
    /\ Published(Get(tasks[1], "wordpress_publish_results", <<>>))
    /\ tasks[1].workflow_step = 3

PublishResults(doc) == Get(doc, "wordpress_publish_results", <<"none">>)
ColorAnalysis(doc) == Get(doc, "color_analysis", <<"none">>)

\* C11: when the WordPress settings are not all present, the commit of
\* publish_to_wordpress carries one entry per color_analysis entry, every
\* entry is 'skipped' and carries no outcome of an upload, and the task ends
\* in PUBLISH_FAILED.
C11_UnconfiguredSkipsAll ==
    [][(PublishCommitStep /\ ~wp_config) =>
          LET results == PublishResults(tasks'[change.id]) IN
          /\ Len(results) = Len(Get(task, "color_analysis", <<>>))
          /\ \A i \in 1 .. Len(results) :
                /\ results[i].status = "skipped"
                /\ "media_id" \notin DOMAIN results[i]
          /\ StatusOf(tasks', change.id) = "PUBLISH_FAILED"]_vars

\* C11 witness: without the settings, a task whose first photo has a corrected
\* file was committed with every entry skipped, as PUBLISH_FAILED.
C11_Witness ==
    /\ ~wp_config
    /\ logged.msg = "completed_2B"
    /\ 1 \in DOMAIN tasks
    /\ StatusOf(tasks, 1) = "PUBLISH_FAILED"
    /\ Len(PublishResults(tasks[1])) = MaxBatch
    /\ \A i \in 1 .. MaxBatch : PublishResults(tasks[1])[i].status = "skipped"
    /\ Get(ColorAnalysis(tasks[1])[1], "corrected_path", "None") # "None"

\* the step in which color_correct_agent commits on a task that exists
ColorCommitStep ==
    /\ wpc = "run2A"
    /\ wpc' = "listen"
    /\ logged'.msg = "completed_2A"
    /\ change.id \in DOMAIN tasks

\* the entry color_correct_agent records for one photo is that of a success
\* or that of a failure of the photo's kind
RecordedOutcome(entry, photo_url) ==
    IF photo_url = LocalRef
    THEN /\ "status" \in DOMAIN entry /\ "corrected_path" \in DOMAIN entry
         /\ \/ entry.status = "completed" /\ entry.corrected_path # "None"
            \/ entry.status = "failed" /\ entry.corrected_path = "None"
    ELSE ("model_used" \in DOMAIN entry) # ("error" \in DOMAIN entry)

\* C12: whatever photos fail, the commit of color_correct_agent records one
\* entry for every photo (completed with its corrected file for a local photo
\* that succeeded, failed or error for a photo that failed) and sets status
\* COLOR_CORRECTED, workflow_step 2 and exactly one more audit entry.
C12_PhotoFailureKeepsBatch ==
    [][ColorCommitStep =>
          LET old == tasks[change.id]
              new == tasks'[change.id]
              photo_urls == Get(task, "photo_urls", <<>>)
          IN /\ Len(ColorAnalysis(new)) = Len(photo_urls)
             /\ \A i \in 1 .. Len(photo_urls) :
                   RecordedOutcome(ColorAnalysis(new)[i], photo_urls[i])
             /\ new.status = "COLOR_CORRECTED"
             /\ new.workflow_step = 2
             /\ new.agent_log = Append(old.agent_log, "color_correction_completed")]_vars

\* C12 witness: two local photos, the first enhanced and the second failed,
\* were committed as COLOR_CORRECTED with workflow_step 2.
C12_Witness ==
    /\ logged.msg = "completed_2A"
    /\ 1 \in DOMAIN tasks
    /\ StatusOf(tasks, 1) = "COLOR_CORRECTED"
    /\ tasks[1].workflow_step = 2
    /\ Len(ColorAnalysis(tasks[1])) = 2
    /\ Get(ColorAnalysis(tasks[1])[1], "status", "none") = "completed"
    /\ Get(ColorAnalysis(tasks[1])[2], "status", "none") = "failed"

\* the reference an entry of color_analysis was made for
EntryRef(entry) == Get(entry, "file_path", Get(entry, "photo_url", "none"))

\* C13: a commit writes one result entry per input item in input order:
\* color_analysis is as long as the photo_urls the handler was given, its
\* n-th entry carries photo_index n and the n-th reference;
\* wordpress_publish_results is as long as the color_analysis the handler was
\* given and its n-th entry carries photo_index n.
C13_IndexAlignment ==
    /\ [][ColorCommitStep =>
            LET photo_urls == Get(task, "photo_urls", <<>>)
                results == ColorAnalysis(tasks'[change.id])
            IN /\ Len(results) = Len(photo_urls)
               /\ \A n \in 1 .. Len(photo_urls) :
                     /\ results[n].photo_index = n
                     /\ EntryRef(results[n]) = photo_urls[n]]_vars
    /\ [][PublishCommitStep =>
            LET color_analysis == Get(task, "color_analysis", <<>>)
                results == PublishResults(tasks'[change.id])
            IN /\ Len(results) = Len(color_analysis)
               /\ \A n \in 1 .. Len(results) : results[n].photo_index = n]_vars

\* C13 witness: a remote and a local photo; the remote one has no corrected
\* file and failed to publish as entry 1, the local one was published as
\* entry 2.
C13_Witness ==
    /\ logged.msg = "completed_2B"
    /\ 1 \in DOMAIN tasks
    /\ Len(PublishResults(tasks[1])) = 2
    /\ PublishResults(tasks[1])[1] = [photo_index |-> 1, status |-> "failed"]
    /\ PublishResults(tasks[1])[2].photo_index = 2
    /\ PublishResults(tasks[1])[2].status = "published"
    /\ EntryRef(ColorAnalysis(tasks[1])[1]) = RemoteRef
    /\ EntryRef(ColorAnalysis(tasks[1])[2]) = LocalRef

\* C14: a batch-level failure changes nothing of the task but retry_metadata:
\* status, workflow_step, photo references, color_analysis,
\* wordpress_publish_results and agent_log are after the failure what they
\* were before it, and no field is added.
C14_FailureTouchesOnlyRetryMetadata ==
    [][BatchFailureStep =>
          /\ change.id \in DOMAIN tasks'
          /\ LET old == tasks[change.id]
                 new == tasks'[change.id]
             IN /\ DOMAIN new \ {"retry_metadata"} = DOMAIN old \ {"retry_metadata"}
                /\ \A f \in DOMAIN old \ {"retry_metadata"} : new[f] = old[f]]_vars

\* C14 witness: publish_to_wordpress failed on a colour-corrected task: the
\* failure is recorded, the task is still COLOR_CORRECTED at step 2 and has
\* no publish results.
C14_Witness ==
    /\ logged = [msg |-> "agent_error", e |-> "error_2B"]
    /\ 1 \in DOMAIN tasks
    /\ Count(tasks[1]) = 1
    /\ StatusOf(tasks, 1) = "COLOR_CORRECTED"
    /\ tasks[1].workflow_step = 2
    /\ "wordpress_publish_results" \notin DOMAIN tasks[1]

\* the step in which upload_real_photo updates a task that exists
UploadStep ==
    /\ upc = "update"
    /\ upc' = "idle"
    /\ task_id \in DOMAIN tasks

AgentLog(doc) == Get(doc, "agent_log", <<>>)

\* C15 as stated: every completed attempt of a handler, committed or ended
\* in a batch-level failure, and every upload appends exactly one entry to
\* the task's agent_log.
C15_EveryAttemptLogged ==
    [][/\ (ColorCommitStep \/ PublishCommitStep \/ BatchFailureStep) =>
             /\ change.id \in DOMAIN tasks'
             /\ Len(AgentLog(tasks'[change.id])) = Len(AgentLog(tasks[change.id])) + 1
       /\ UploadStep =>
             /\ task_id \in DOMAIN tasks'
             /\ Len(AgentLog(tasks'[task_id])) = Len(AgentLog(tasks[task_id])) + 1]_vars

\* C15 amended: every attempt of a handler that commits and every upload
\* appends exactly one entry, its own, to the task's agent_log; an attempt
\* that ends in a batch-level failure appends none.
C15_CommittedAttemptLogged ==
    [][/\ ColorCommitStep =>
             AgentLog(tasks'[change.id]) =
                 Append(AgentLog(tasks[change.id]), "color_correction_completed")
       /\ PublishCommitStep =>
             AgentLog(tasks'[change.id]) =
                 Append(AgentLog(tasks[change.id]), "wordpress_publish_completed")
       /\ UploadStep =>
             AgentLog(tasks'[task_id]) = Append(AgentLog(tasks[task_id]), "photo_uploaded")
       /\ BatchFailureStep =>
             AgentLog(tasks'[change.id]) = AgentLog(tasks[change.id])]_vars

\* C15 witness: color_correct_agent failed on an uploaded task and its failure
\* is counted, while the log holds the entries of the creation and the upload
\* only.
C15_Witness ==
    /\ logged = [msg |-> "agent_error", e |-> "error_2A"]
    /\ 1 \in DOMAIN tasks
    /\ Count(tasks[1]) = 1
    /\ AgentLog(tasks[1]) = <<"task_created", "photo_uploaded">>

IsPrefix(a, b) == Len(a) <= Len(b) /\ SubSeq(b, 1, Len(a)) = a

\* C16: agent_log is append-only: across every write to a task the log before
\* the write is a prefix of the log after it.
C16_AgentLogAppendOnly ==
    [][\A id \in DOMAIN tasks \cap DOMAIN tasks' :
          IsPrefix(AgentLog(tasks[id]), AgentLog(tasks'[id]))]_vars

\* C16 witness: the log of a task that went through the upload and both
\* handlers holds their entries in the order they were written.
C16_Witness ==
    /\ 1 \in DOMAIN tasks
    /\ AgentLog(tasks[1]) = <<"task_created", "photo_uploaded",
                              "color_correction_completed",
                              "wordpress_publish_completed">>

StepOf(status) ==
    CASE status \in {"INITIATED", "PHOTOS_UPLOADED"} -> 1
      [] status = "COLOR_CORRECTED" -> 2
      [] status \in Terminal -> 3
      [] OTHER -> 0

Consistent(doc) ==
    Get(doc, "workflow_step", 0) = StepOf(Get(doc, "status", "UNKNOWN"))

\* C17: workflow_step is 1 while status is INITIATED or PHOTOS_UPLOADED, 2
\* while it is COLOR_CORRECTED and 3 while it is terminal: a task is created
\* so, every write to a task that is so leaves it so, and no write changes
\* workflow_step by more than 1.  The writes of the seeding script (the steps
\* that change seed_id) are not among the writes the claim is about.
C17_StepMatchesStatus ==
    [][seed_id' = seed_id =>
          \A id \in DOMAIN tasks' :
             IF id \in DOMAIN tasks
             THEN /\ Consistent(tasks[id]) => Consistent(tasks'[id])
                  /\ Get(tasks'[id], "workflow_step", 0)
                        - Get(tasks[id], "workflow_step", 0) \in {-1, 0, 1}
             ELSE Consistent(tasks'[id])]_vars

\* the task's latest audited write is an upload
UploadedLast(doc) ==
    /\ AgentLog(doc) # <<>>
    /\ AgentLog(doc)[Len(AgentLog(doc))] = "photo_uploaded"

\* C18: color_analysis and wordpress_publish_results are each written at most
\* once in the life of a task (no write ever removes a field), whatever
\* uploads are made to it: color_correct_agent, run on a task whose latest
\* audited write is an upload, commits only if the task has no color_analysis
\* yet, and publish_to_wordpress commits only to a task that has no
\* wordpress_publish_results yet.
C18_ResultsWrittenOnce ==
    [][/\ (ColorCommitStep /\ UploadedLast(tasks[change.id])) =>
             "color_analysis" \notin DOMAIN tasks[change.id]
       /\ PublishCommitStep =>
             "wordpress_publish_results" \notin DOMAIN tasks[change.id]]_vars

\* C19: retry_metadata is written by a batch-level failure only, which adds 1
\* to count and overwrites last_error; every other write (an upload, a handler
\* commit, the seeding update) leaves count and last_error as they were.
C19_RetryMetadataOnlyGrows ==
    [][\A id \in DOMAIN tasks \cap DOMAIN tasks' :
          \/ /\ Count(tasks'[id]) = Count(tasks[id])
             /\ LastError(tasks'[id]) = LastError(tasks[id])
          \/ /\ BatchFailureStep
             /\ id = change.id
             /\ Count(tasks'[id]) = Count(tasks[id]) + 1
             /\ LastError(tasks'[id]) = logged'.e]_vars

\* C19 witness: a failure of color_correct_agent was counted, and the count
\* and the error text are still there after both handlers have committed.
C19_Witness ==
    /\ logged.msg = "completed_2B"
    /\ 1 \in DOMAIN tasks
    /\ StatusOf(tasks, 1) \in Terminal
    /\ Count(tasks[1]) = 1
    /\ LastError(tasks[1]) = "error_2A"

\* C20: in every reachable state a task in COLOR_CORRECTED or a later status
\* has color_analysis and the audit entry of color_correct_agent, and a task
\* in a terminal status also has wordpress_publish_results, workflow_step 3
\* and the audit entry of publish_to_wordpress.
C20_NoHalfUpdatedTask ==
    \A id \in DOMAIN tasks :
        /\ StatusOf(tasks, id) \in {"COLOR_CORRECTED"} \cup Terminal =>
              /\ "color_analysis" \in DOMAIN tasks[id]
              /\ \E i \in 1 .. Len(AgentLog(tasks[id])) :
                    AgentLog(tasks[id])[i] = "color_correction_completed"
        /\ StatusOf(tasks, id) \in Terminal =>
              /\ "wordpress_publish_results" \in DOMAIN tasks[id]
              /\ Get(tasks[id], "workflow_step", 0) = 3
              /\ \E i \in 1 .. Len(AgentLog(tasks[id])) :
                    AgentLog(tasks[id])[i] = "wordpress_publish_completed"

\* C20 witness: a task that failed to publish is terminal with its results,
\* workflow_step 3 and both handlers' audit entries.
C20_Witness ==
    /\ 1 \in DOMAIN tasks
    /\ StatusOf(tasks, 1) = "PUBLISH_FAILED"
    /\ "color_analysis" \in DOMAIN tasks[1]
    /\ "wordpress_publish_results" \in DOMAIN tasks[1]
    /\ tasks[1].workflow_step = 3
    /\ Len(AgentLog(tasks[1])) >= 3

HandlerInFlight == wpc \in {"run2A", "run2B"}

\* C21: events are processed one after another: an event is pulled only
\* while the worker waits on the stream (no event being processed, no handler
\* in flight) and it is the oldest buffered one; a handler starts only from
\* the processing of the pulled event; and between pulls the buffered events
\* keep their order: writes append at the end, a lost or closed subscription
\* drops them all.
C21_OneEventAtATime ==
    /\ [](HandlerInFlight => task # NoTask /\ change.id # NoId)
    /\ [][/\ (wpc' = "process" /\ wpc # "process") =>
                /\ wpc = "listen"
                /\ stream # <<>>
                /\ change' = Head(stream)
                /\ stream' = Tail(stream)
          /\ (HandlerInFlight' /\ wpc' # wpc) =>
                /\ wpc = "process"
                /\ change' = change
          /\ \/ wpc = "listen" /\ wpc' = "process"
             \/ IsPrefix(stream, stream')
             \/ ~StreamOpen' /\ stream' = <<>>
             \/ wpc = "connect" /\ stream' = <<>>]_vars

\* C21 witness: an upload was made while color_correct_agent was in flight;
\* its event is processed after the handler has returned and before the
\* event of the handler's own commit, which was emitted later.
C21_Witness ==
    /\ wpc = "process"
    /\ change.by = "upload"
    /\ change.op = "update"
    /\ stream # <<>>
    /\ stream[1].by = "2A"

\* the fields of a task that only the worker's handlers write
HandlerFields(doc) ==
    [f \in DOMAIN doc \cap {"color_analysis", "wordpress_publish_results",
                            "workflow_step", "retry_metadata"} |-> doc[f]]

\* C22: the step of an interrupt writes nothing to the store, so a handler
\* that was in flight has either committed in full before it or has left the
\* task as it was; once interrupted the loop stays ended: no event is pulled,
\* no handler runs or writes, no sleep and no reconnect follow.
C22_InterruptStopsLoop ==
    /\ [][(exit_reason # "interrupt" /\ exit_reason' = "interrupt") =>
             /\ wpc' = "exited"
             /\ tasks' = tasks]_vars
    /\ [][exit_reason = "interrupt" =>
             /\ wpc' = "exited"
             /\ exit_reason' = "interrupt"
             /\ UNCHANGED <<stream, change, task, retry_count, wait_time, logged, fails>>
             /\ \A id \in DOMAIN tasks \cap DOMAIN tasks' :
                   HandlerFields(tasks'[id]) = HandlerFields(tasks[id])]_vars
    /\ [](exit_reason = "interrupt" => wpc = "exited" /\ stream = <<>>)

\* C22 witness: the interrupt came while color_correct_agent was in flight;
\* the loop has ended and the task is the document the handler was given,
\* still PHOTOS_UPLOADED and without color_analysis.
C22_Witness ==
    /\ wpc = "exited"
    /\ exit_reason = "interrupt"
    /\ task # NoTask
    /\ change.id \in DOMAIN tasks
    /\ tasks[change.id] = task
    /\ StatusOf(tasks, change.id) = "PHOTOS_UPLOADED"
    /\ Len(Get(task, "photo_urls", <<>>)) = 1
    /\ "color_analysis" \notin DOMAIN tasks[change.id]

\* the worker skips an event: one without a task id, or one whose task is
\* not in the store
SkippedEventStep ==
    \/ wpc = "listen" /\ logged.msg # "no_task_id" /\ logged'.msg = "no_task_id"
    \/ wpc = "process" /\ logged'.msg = "task_not_found"

\* C23: an event without a task id and an event whose task is gone are
\* skipped: no handler starts, the store is not written, retry_count and the
\* backoff are not touched, the loop does not end, and the worker waits on
\* the same subscription with the events still buffered.
C23_SkippedEventIsNoOp ==
    [][SkippedEventStep =>
          /\ wpc' = "listen"
          /\ task' = NoTask
          /\ tasks' = tasks
          /\ stream' = stream
          /\ UNCHANGED <<retry_count, fails, wait_time, exit_reason>>]_vars

\* C23 witness: the task was deleted while its event was being processed; the
\* event was skipped and the next event of the subscription is waiting.
C23_Witness ==
    /\ logged.msg = "task_not_found"
    /\ wpc = "listen"
    /\ tasks = <<>>
    /\ stream # <<>>
    /\ retry_count = 0
    /\ exit_reason = "none"

C25_AnalysisCoversPhotos ==
    \A id \in DOMAIN tasks :
        StatusOf(tasks, id) \in {"COLOR_CORRECTED"} \cup Terminal =>
            Len(Get(tasks[id], "color_analysis", <<>>))
                = Len(Get(tasks[id], "photo_urls", <<>>))

\* an exception raised while one event is processed is caught
ProcessErrorStep ==
    /\ wpc = "process"
    /\ logged'.msg = "error_processing_change"

\* C26: an exception raised while one change event is processed is contained
\* to that event: retry_count and the backoff are not touched, the loop does
\* not end, no task (so no retry_metadata) is written, and the worker waits
\* on the same subscription with the buffered events still there.
C26_ProcessingErrorContained ==
    [][ProcessErrorStep =>
          /\ wpc' = "listen"
          /\ StreamOpen'
          /\ stream' = stream
          /\ tasks' = tasks
          /\ UNCHANGED <<retry_count, fails, wait_time, exit_reason>>]_vars

\* C26 witness: the processing of an event of an uploaded task has failed;
\* the worker listens again with retry_count 0, the next event is waiting and
\* the task's retry_metadata is untouched.
C26_Witness ==
    /\ logged.msg = "error_processing_change"
    /\ wpc = "listen"
    /\ retry_count = 0
    /\ exit_reason = "none"
    /\ stream # <<>>
    /\ 1 \in DOMAIN tasks
    /\ Count(tasks[1]) = 0
    /\ StatusOf(tasks, 1) = "PHOTOS_UPLOADED"

====
